---- MODULE Spec2Model ----
(***************************************************************************)
(* Model of the trylatex document builder (src/src/lib.rs).                *)
(*                                                                         *)
(* Strings are TLA+ strings; concatenation is \o.  Every node kind is a    *)
(* record.  Values behind `Box<dyn Element>` carry a `kind` field naming   *)
(* the concrete type, enum values carry a `tag` field naming the variant;  *)
(* the payload field is named after what it holds.                         *)
(***************************************************************************)
EXTENDS Integers, Sequences, FiniteSets, TLC

\* ------------------------------------------------------------------ bounds
\* largest number of children held by an Area in the explored runs
MaxObjs == 2
\* largest number of param() calls on one Macros in the explored runs
MaxParams == 2

\* ------------------------------------------------------- string helpers
RECURSIVE collect(_)
\* Iterator::collect::<String>(): concatenation, no separator
collect(strs) ==
    IF strs = <<>> THEN "" ELSE Head(strs) \o collect(Tail(strs))

RECURSIVE join(_, _)
\* <[String]>::join(sep)
join(strs, sep) ==
    IF strs = <<>> THEN ""
    ELSE IF Len(strs) = 1 THEN strs[1]
    ELSE strs[1] \o sep \o join(Tail(strs), sep)

\* ------------------------------------------------------------ Parameter
\* impl From<S: AsRef<str>> for Parameter
Parameter_from(s) == [tag |-> "Literal", l |-> s]

\* impl Into<Parameter> for Macros
Macros_into(m) == [tag |-> "Macros", m |-> m]

\* Option<Parameter>
None == [tag |-> "None"]
Some(p) == [tag |-> "Some", v |-> p]

\* --------------------------------------------------------------- Macros
Macros_new(m) == [m |-> m, params |-> <<>>]

\* a plausible slip: the new parameter is put in front of the others
Macros_param_front(self, parameter) ==
    [self EXCEPT !.params = <<parameter>> \o @]

\* Macros::param; `parameter` is the value after .into()
Macros_param(self, parameter) ==
    [self EXCEPT !.params = Append(@, parameter)]

LaTeX == Macros_new("LaTeX")

\* ----------------------------------------------------------------- Text
Text(s) == [kind |-> "Text", s |-> s]
Text_render(self) == self.s

\* --------------------------------------------------------- DocumentType
\* impl Display for DocumentType
DocumentType_fmt(t) == CASE t = "Article" -> "article"

\* ---------------------------------------------------------------- Area
Area_new == [objs |-> <<>>]

\* a plausible slip: the new child is put in front of the others
Area_with_front(self, e) == [self EXCEPT !.objs = <<e>> \o @]

\* Area::with(self, e): objs.push(Box::new(e))
Area_with(self, e) == [self EXCEPT !.objs = Append(@, e)]

\* ---------------------------------------------------------------- Boxed
Boxed_new == [prep |-> Area_new, middle |-> Area_new, after |-> Area_new]

\* a plausible change: the element is stored in the prep region
Boxed_with_prep(self, e) == [self EXCEPT !.prep = Area_with(@, e)]

\* Boxed::with(self, e): returns self, e is dropped
Boxed_with(self, e) == self

\* ------------------------------------------------------------ Preambule
Preambule_new == [type |-> "Article", author |-> None, tittle |-> None]

Preambule_type(self, t) == [self EXCEPT !.type = t]

\* a plausible slip: an already set title is kept
Preambule_tittle_keep(self, parameter) ==
    IF self.tittle = None
    THEN [self EXCEPT !.tittle =
            Some(Macros_into(Macros_param(Macros_new("title"), parameter)))]
    ELSE self

\* Preambule::tittle; `parameter` is the value after .into()
Preambule_tittle(self, parameter) ==
    [self EXCEPT !.tittle =
        Some(Macros_into(Macros_param(Macros_new("title"), parameter)))]

\* Preambule::author; `author` is a plain string (S: AsRef<str>)
Preambule_author(self, author) ==
    [self EXCEPT !.author =
        Some(Macros_into(Macros_param(Macros_new("author"),
                                      Parameter_from(author))))]

\* ------------------------------------------------------------- renders
RECURSIVE Macros_render(_), Parameter_render(_), Element_render(_),
          Area_render(_)

\* Macros::render
Macros_render(self) ==
    LET params == collect([i \in 1..Len(self.params) |->
                              Parameter_render(self.params[i])])
    IN  IF params # ""
        THEN "\\" \o self.m \o "{" \o params \o "}"
        ELSE "\\" \o self.m

\* Parameter::render
Parameter_render(self) ==
    CASE self.tag = "Literal" -> self.l
      [] self.tag = "Macros"  -> Macros_render(self.m)

\* Area::render
Area_render(self) ==
    collect([i \in 1..Len(self.objs) |-> Element_render(self.objs[i])])

\* Boxed::render
Boxed_render(self) ==
    Area_render(self.prep) \o "\n" \o Area_render(self.middle) \o "\n"
        \o Area_render(self.after)

\* a plausible slip: the author is pushed before the title
Preambule_render_swapped(self) ==
    LET buf0 == << "\\documentclass{" \o DocumentType_fmt(self.type) \o "}" >>
        buf1 == IF self.author.tag = "Some"
                THEN Append(buf0, Parameter_render(self.author.v)) ELSE buf0
        buf2 == IF self.tittle.tag = "Some"
                THEN Append(buf1, Parameter_render(self.tittle.v)) ELSE buf1
    IN  join(buf2, "\n")

\* Preambule::render
Preambule_render(self) ==
    LET buf0 == << "\\documentclass{" \o DocumentType_fmt(self.type) \o "}" >>
        buf1 == IF self.tittle.tag = "Some"
                THEN Append(buf0, Parameter_render(self.tittle.v)) ELSE buf0
        buf2 == IF self.author.tag = "Some"
                THEN Append(buf1, Parameter_render(self.author.v)) ELSE buf1
    IN  join(buf2, "\n")

\* a plausible slip: one line break between preamble and body
Document_render_oneline(self) ==
    Preambule_render(self.preambule) \o "\n" \o Boxed_render(self.body) \o "\n"

\* Document::render
Document_render(self) ==
    Preambule_render(self.preambule) \o "\n\n" \o Boxed_render(self.body)
        \o "\n"

\* dynamic dispatch of Element::render through Box<dyn Element>
Element_render(e) ==
    CASE e.kind = "Text"      -> Text_render(e)
      [] e.kind = "Macros"    -> Macros_render(e.m)
      [] e.kind = "Parameter" -> Parameter_render(e.p)
      [] e.kind = "Area"      -> Area_render(e.a)
      [] e.kind = "Boxed"     -> Boxed_render(e.b)
      [] e.kind = "Preambule" -> Preambule_render(e.pre)
      [] e.kind = "Document"  -> Document_render(e.d)

\* ------------------------------------------------------------- Document
\* Document::new
Document_new ==
    LET body == Boxed_new
        body1 == [body EXCEPT !.prep = Area_with(@,
                    [kind |-> "Macros",
                     m |-> Macros_param(Macros_new("begin"),
                                        Parameter_from("document"))])]
        body2 == [body1 EXCEPT !.after = Area_with(@,
                    [kind |-> "Macros",
                     m |-> Macros_param(Macros_new("end"),
                                        Parameter_from("document"))])]
    IN  [preambule |-> Preambule_new, body |-> body2]

\* Document::with(self, e)
Document_with(self, e) ==
    [self EXCEPT !.body.middle = Area_with(@, e)]

\* ---------------------------------------------------------------- state
VARIABLES
    doc,      \* the Document being built
    area,     \* a free-standing Area being built
    cmd,      \* a free-standing Macros being built
    op,       \* name of the last operation called
    arg,      \* the value passed to the last operation
    before,   \* doc, area, cmd, op and out when the last operation began
    out,      \* Some(string returned) if the last operation was a render
    docLog,   \* the elements passed to Document::with so far, in call order
    areaLog,  \* the elements passed to Area::with so far, in call order
    cmdLog    \* the parameters passed to Macros::param so far, in call order

vars == <<doc, area, cmd, op, arg, before, out, docLog, areaLog, cmdLog>>

NoArg == [tag |-> "NoArg"]

\* ----------------------------------------------------------------- inputs
Names == {"LaTeX", "begin"}
Literals == {"", "a", "b"}

\* commands that callers pass as nested parameters
NestedInputs ==
    {Macros_new(n) : n \in Names}
        \cup {Macros_param(Macros_new(n), Parameter_from(l)) :
                 n \in Names, l \in {"", "a"}}

\* values accepted by Macros::param (P: Into<Parameter>), after .into()
ParamInputs ==
    {Parameter_from(l) : l \in Literals}
        \cup {Macros_into(m) : m \in NestedInputs}

\* values accepted by Preambule::tittle (P: Into<Parameter>), after .into()
TittleInputs ==
    {Parameter_from(""), Parameter_from("Intro"), Macros_into(LaTeX)}

\* values accepted by Preambule::author (S: AsRef<str>)
AuthorInputs == {"", "Maxim Zhiburt"}

TypeInputs == {"Article"}

\* values accepted by Container::with (E: Element)
ElemInputs ==
    { Text("something"),
      [kind |-> "Macros", m |-> LaTeX],
      [kind |-> "Parameter", p |-> Parameter_from("a")],
      [kind |-> "Area", a |-> Area_with(Area_new, Text("x"))] }

Snapshot == [doc |-> doc, area |-> area, cmd |-> cmd, op |-> op, out |-> out]

Init ==
    /\ doc = Document_new
    /\ area = Area_new
    /\ cmd = LaTeX
    /\ op = "new"
    /\ arg = NoArg
    /\ before = [doc |-> Document_new, area |-> Area_new, cmd |-> LaTeX,
                 op |-> "new", out |-> None]
    /\ out = None
    /\ docLog = <<>>
    /\ areaLog = <<>>
    /\ cmdLog = <<>>

\* --------------------------------------------------------------- actions
\* doc = doc.with(e)
DocWith(e) ==
    /\ Len(doc.body.middle.objs) < MaxObjs
    /\ doc' = Document_with(doc, e)
    /\ docLog' = Append(docLog, e)
    /\ op' = "Document_with" /\ arg' = e /\ before' = Snapshot /\ out' = None
    /\ UNCHANGED <<area, cmd, areaLog, cmdLog>>

\* doc.body = doc.body.with(e); the guard caps the size of the wrapper
\* regions and is true of every body Boxed::with returns
BodyWith(e) ==
    /\ Len(doc.body.prep.objs) + Len(doc.body.after.objs) < MaxObjs + 2
    /\ doc' = [doc EXCEPT !.body = Boxed_with(@, e)]
    /\ op' = "Boxed_with" /\ arg' = e /\ before' = Snapshot /\ out' = None
    /\ UNCHANGED <<area, cmd, docLog, areaLog, cmdLog>>

\* doc.preambule().r#type(t)
SetType(t) ==
    /\ doc' = [doc EXCEPT !.preambule = Preambule_type(@, t)]
    /\ op' = "Preambule_type" /\ arg' = [tag |-> "DocumentType", t |-> t]
    /\ before' = Snapshot /\ out' = None
    /\ UNCHANGED <<area, cmd, docLog, areaLog, cmdLog>>

\* doc.preambule().tittle(p)
SetTittle(p) ==
    /\ doc' = [doc EXCEPT !.preambule = Preambule_tittle(@, p)]
    /\ op' = "Preambule_tittle" /\ arg' = p
    /\ before' = Snapshot /\ out' = None
    /\ UNCHANGED <<area, cmd, docLog, areaLog, cmdLog>>

\* doc.preambule().author(s)
SetAuthor(s) ==
    /\ doc' = [doc EXCEPT !.preambule = Preambule_author(@, s)]
    /\ op' = "Preambule_author" /\ arg' = [tag |-> "Str", s |-> s]
    /\ before' = Snapshot /\ out' = None
    /\ UNCHANGED <<area, cmd, docLog, areaLog, cmdLog>>

\* a render that takes the body content out of the tree
RenderDocument_consuming ==
    /\ out' = Some(Document_render(doc))
    /\ doc' = [doc EXCEPT !.body.middle = Area_new]
    /\ op' = "Document_render" /\ arg' = NoArg /\ before' = Snapshot
    /\ UNCHANGED <<area, cmd, docLog, areaLog, cmdLog>>

\* doc.render(): &self, the tree is only read
RenderDocument ==
    /\ out' = Some(Document_render(doc))
    /\ op' = "Document_render" /\ arg' = NoArg /\ before' = Snapshot
    /\ UNCHANGED <<doc, area, cmd, docLog, areaLog, cmdLog>>

\* doc.preambule.render()
RenderPreambule ==
    /\ out' = Some(Preambule_render(doc.preambule))
    /\ op' = "Preambule_render" /\ arg' = NoArg /\ before' = Snapshot
    /\ UNCHANGED <<doc, area, cmd, docLog, areaLog, cmdLog>>

\* doc.body.render()
RenderBoxed ==
    /\ out' = Some(Boxed_render(doc.body))
    /\ op' = "Boxed_render" /\ arg' = NoArg /\ before' = Snapshot
    /\ UNCHANGED <<doc, area, cmd, docLog, areaLog, cmdLog>>

\* area = area.with(e)
AreaWith(e) ==
    /\ Len(area.objs) < MaxObjs
    /\ area' = Area_with(area, e)
    /\ areaLog' = Append(areaLog, e)
    /\ op' = "Area_with" /\ arg' = e /\ before' = Snapshot /\ out' = None
    /\ UNCHANGED <<doc, cmd, docLog, cmdLog>>

\* area.render()
RenderArea ==
    /\ out' = Some(Area_render(area))
    /\ op' = "Area_render" /\ arg' = NoArg /\ before' = Snapshot
    /\ UNCHANGED <<doc, area, cmd, docLog, areaLog, cmdLog>>

\* area.objs[i].render(): render of one child through its Box<dyn Element>
RenderObj(i) ==
    /\ out' = Some(Element_render(area.objs[i]))
    /\ op' = "Element_render" /\ arg' = area.objs[i] /\ before' = Snapshot
    /\ UNCHANGED <<doc, area, cmd, docLog, areaLog, cmdLog>>

\* cmd = Macros::new(name)
CmdNew(name) ==
    /\ cmd' = Macros_new(name)
    /\ cmdLog' = <<>>
    /\ op' = "Macros_new" /\ arg' = [tag |-> "Str", s |-> name]
    /\ before' = Snapshot /\ out' = None
    /\ UNCHANGED <<doc, area, docLog, areaLog>>

\* cmd = cmd.param(p)
CmdParam(p) ==
    /\ Len(cmd.params) < MaxParams
    /\ cmd' = Macros_param(cmd, p)
    /\ cmdLog' = Append(cmdLog, p)
    /\ op' = "Macros_param" /\ arg' = p /\ before' = Snapshot /\ out' = None
    /\ UNCHANGED <<doc, area, docLog, areaLog>>

\* cmd.render()
RenderCmd ==
    /\ out' = Some(Macros_render(cmd))
    /\ op' = "Macros_render" /\ arg' = NoArg /\ before' = Snapshot
    /\ UNCHANGED <<doc, area, cmd, docLog, areaLog, cmdLog>>

\* ------------------------------------------------------- specifications
\* a Document: metadata, body content, renders
Next ==
    \/ \E e \in ElemInputs : DocWith(e)
    \/ \E e \in ElemInputs : BodyWith(e)
    \/ \E t \in TypeInputs : SetType(t)
    \/ \E p \in TittleInputs : SetTittle(p)
    \/ \E s \in AuthorInputs : SetAuthor(s)
    \/ RenderDocument
    \/ RenderPreambule
    \/ RenderBoxed

Spec == Init /\ [][Next]_vars

\* the three Container implementations side by side
NextContainers ==
    \/ \E e \in ElemInputs : AreaWith(e)
    \/ \E e \in ElemInputs : DocWith(e)
    \/ \E e \in ElemInputs : BodyWith(e)
    \/ RenderArea
    \/ \E i \in 1..Len(area.objs) : RenderObj(i)
    \/ RenderBoxed

SpecContainers == Init /\ [][NextContainers]_vars

\* a Macros builder
NextCmd ==
    \/ \E n \in Names : CmdNew(n)
    \/ \E p \in ParamInputs : CmdParam(p)
    \/ RenderCmd

SpecCmd == Init /\ [][NextCmd]_vars

\* ------------------------------------------------- helpers of the claims
StartsWith(s, prefix) ==
    Len(s) >= Len(prefix) /\ SubSeq(s, 1, Len(prefix)) = prefix

RECURSIVE SplitFrom(_, _, _)
\* the lines of s that begin at or after `start`, scanning from position i
SplitFrom(s, i, start) ==
    IF i > Len(s) THEN << SubSeq(s, start, Len(s)) >>
    ELSE IF SubSeq(s, i, i) = "\n"
         THEN << SubSeq(s, start, i - 1) >> \o SplitFrom(s, i + 1, i + 1)
         ELSE SplitFrom(s, i + 1, start)

\* s cut at every line break; "a\n" gives <<"a", "">>
SplitLines(s) == SplitFrom(s, 1, 1)

\* the lines of a text that start with a prefix
LinesWith(text, prefix) ==
    SelectSeq(SplitLines(text), LAMBDA l : StartsWith(l, prefix))

\* e1.render() + ... + en.render()
RendersOf(elems) ==
    collect([i \in 1..Len(elems) |-> Element_render(elems[i])])

RenderOps ==
    {"Document_render", "Preambule_render", "Boxed_render", "Area_render",
     "Element_render", "Macros_render"}

\* ----------------------------------------------------------------- claims

\* the stored form of a title / an author given as parameter p
TitleOf(p) == Some([tag |-> "Macros", m |-> [m |-> "title", params |-> <<p>>]])
AuthorOf(p) == Some([tag |-> "Macros", m |-> [m |-> "author", params |-> <<p>>]])

\* the document of the test it_works: title \LaTeX, author "Maxim Zhiburt",
\* one Text "something"
IsTestDocument ==
    /\ doc.preambule.type = "Article"
    /\ doc.preambule.tittle =
          TitleOf([tag |-> "Macros", m |-> [m |-> "LaTeX", params |-> <<>>]])
    /\ doc.preambule.author =
          AuthorOf([tag |-> "Literal", l |-> "Maxim Zhiburt"])
    /\ docLog = << [kind |-> "Text", s |-> "something"] >>

\* a document with nothing set and nothing appended
IsFreshDocument ==
    /\ doc.preambule.tittle = None
    /\ doc.preambule.author = None
    /\ docLog = <<>>

\* C1: Document::render returns preamble.render() + "\n\n" +
\* "\begin{document}" + "\n" + the renders of the appended elements in order
\* + "\n" + "\end{document}" + "\n"; the document of the test renders as the
\* test's expected string and an untouched document as
\* "\documentclass{article}\n\n\begin{document}\n\n\end{document}\n".
C1_DocumentRenderLayout ==
    op = "Document_render" =>
        /\ out = Some(Preambule_render(doc.preambule) \o "\n\n"
                        \o "\\begin{document}" \o "\n" \o RendersOf(docLog)
                        \o "\n" \o "\\end{document}" \o "\n")
        /\ IsTestDocument =>
              out = Some("\\documentclass{article}\n\\title{\\LaTeX}\n"
                           \o "\\author{Maxim Zhiburt}\n\n\\begin{document}\n"
                           \o "something\n\\end{document}\n")
        /\ IsFreshDocument =>
              out = Some("\\documentclass{article}\n\n\\begin{document}\n\n"
                           \o "\\end{document}\n")

C1_Witness == op = "Document_render" /\ IsTestDocument

\* C3: with(e) on an Area, a Boxed and a Document returns the container with
\* e appended at the end of its ordered sequence, so that its render contains
\* e.render() after all previously held content.
C3_WithAppends ==
    /\ op = "Area_with" =>
          /\ area.objs = Append(before.area.objs, arg)
          /\ Area_render(area)
                = Area_render(before.area) \o Element_render(arg)
    /\ op = "Document_with" =>
          /\ doc.body.middle.objs = Append(before.doc.body.middle.objs, arg)
          /\ Area_render(doc.body.middle)
                = Area_render(before.doc.body.middle) \o Element_render(arg)
    /\ op = "Boxed_with" =>
          \E region \in {"prep", "middle", "after"} :
              doc.body[region].objs
                  = Append(before.doc.body[region].objs, arg)

\* C4: the render of an Area, and of the middle region of a Document's body,
\* is the concatenation of the renders of the appended elements in append
\* order, nothing lost, duplicated or reordered; an Area without children
\* renders as the empty string.
C4_OrderPreserved ==
    /\ area.objs = areaLog
    /\ doc.body.middle.objs = docLog
    /\ Area_render(area) = RendersOf(areaLog)
    /\ Area_render(doc.body.middle) = RendersOf(docLog)
    /\ op = "Area_render" => out = Some(RendersOf(areaLog))
    /\ areaLog = <<>> => Area_render(area) = ""

C4_Witness ==
    /\ op = "Area_render"
    /\ Len(areaLog) = 2
    /\ Element_render(areaLog[1]) # Element_render(areaLog[2])
    /\ Len(docLog) = 2
    /\ Element_render(docLog[1]) # Element_render(docLog[2])

\* C5: a Preamble setter leaves the Preamble as one call with the last value
\* would, whatever was set before; the render shows that value only, and
\* holds at most one title line and at most one author line.
C5_LastWriteWins ==
    LET text == Preambule_render(doc.preambule)
        old == before.doc.preambule
    IN  /\ Len(LinesWith(text, "\\title")) <= 1
        /\ Len(LinesWith(text, "\\author")) <= 1
        /\ op = "Preambule_tittle" =>
              /\ doc.preambule = [old EXCEPT !.tittle = TitleOf(arg)]
              /\ LinesWith(text, "\\title")
                    = << Parameter_render(TitleOf(arg).v) >>
        /\ op = "Preambule_author" =>
              /\ doc.preambule =
                    [old EXCEPT !.author =
                        AuthorOf([tag |-> "Literal", l |-> arg.s])]
              /\ LinesWith(text, "\\author")
                    = << Parameter_render(
                            AuthorOf([tag |-> "Literal", l |-> arg.s]).v) >>
        /\ op = "Preambule_type" =>
              doc.preambule = [old EXCEPT !.type = arg.t]

\* the title is set a second time, to another value
C5_Witness ==
    /\ op = "Preambule_tittle"
    /\ before.op = "Preambule_tittle"
    /\ before.doc.preambule.tittle # doc.preambule.tittle
    /\ doc.preambule.author # None

\* C6: the Preamble renders as the line "\documentclass{article}", then the
\* title line iff a title is set, then the author line iff an author is
\* set, title before author whatever the order of the setter calls; the
\* lines are separated by exactly one "\n" and no "\n" ends the text.
C6_PreambuleLayout ==
    LET text == Preambule_render(doc.preambule)
        L == SplitLines(text)
        hasT == doc.preambule.tittle # None
        hasA == doc.preambule.author # None
    IN  /\ L[1] = "\\documentclass{article}"
        /\ Len(L) = 1 + (IF hasT THEN 1 ELSE 0) + (IF hasA THEN 1 ELSE 0)
        /\ hasT => StartsWith(L[2], "\\title")
        /\ hasA => StartsWith(L[Len(L)], "\\author")
        /\ \A i \in 1..Len(L) : L[i] # ""
        /\ op \in {"Preambule_tittle", "Preambule_author"} =>
              (hasT <=> Len(LinesWith(text, "\\title")) = 1)
        /\ op = "Preambule_tittle" => hasT
        /\ op = "Preambule_author" => hasA
        /\ op = "Preambule_render" => out = Some(text)

\* the author was set first, the title after it
C6_Witness ==
    /\ op = "Preambule_tittle"
    /\ before.doc.preambule.tittle = None
    /\ before.doc.preambule.author # None

\* C8: a render leaves doc, area and cmd as they were, and a render that
\* directly follows the same render returns the same string.
C8_RenderIsPure ==
    op \in RenderOps =>
        /\ doc = before.doc
        /\ area = before.area
        /\ cmd = before.cmd
        /\ (before.op = op /\ op # "Element_render") => out = before.out

\* Document::render called twice in a row on a document with content
C8_Witness ==
    /\ op = "Document_render"
    /\ before.op = "Document_render"
    /\ Len(doc.body.middle.objs) >= 1
    /\ doc.preambule.tittle # None

\* C9: once set, the title renders as the line "\title{" + p.render() + "}"
\* and the author as the line "\author{" + p.render() + "}", for every
\* literal or nested Command p.
C9_TitleAuthorLines ==
    LET L == SplitLines(Preambule_render(doc.preambule))
    IN  /\ op = "Preambule_tittle" =>
              L[2] = "\\title{" \o Parameter_render(arg) \o "}"
        /\ op = "Preambule_author" =>
              L[Len(L)] = "\\author{" \o arg.s \o "}"

\* C10: prep always holds the one command rendering as "\begin{document}",
\* after the one command rendering as "\end{document}"; Document::with
\* changes the middle region only and Boxed::with changes no region.
C10_PrepAfterFixed ==
    /\ Len(doc.body.prep.objs) = 1
    /\ doc.body.prep.objs[1].kind = "Macros"
    /\ Area_render(doc.body.prep) = "\\begin{document}"
    /\ Len(doc.body.after.objs) = 1
    /\ doc.body.after.objs[1].kind = "Macros"
    /\ Area_render(doc.body.after) = "\\end{document}"
    /\ doc.body.prep = before.doc.body.prep
    /\ doc.body.after = before.doc.body.after
    /\ op = "Document_with" =>
          /\ doc.preambule = before.doc.preambule
          /\ doc.body.middle # before.doc.body.middle
    /\ op = "Boxed_with" => doc.body = before.doc.body

\* Boxed::with called on a body that already holds content
C10_Witness ==
    /\ op = "Boxed_with"
    /\ Len(doc.body.middle.objs) >= 1
    /\ doc.preambule.tittle # None

\* p.render() as the claims describe it: a literal is its text, a nested
\* command is that command's render
ParamText(p) == IF p.tag = "Literal" THEN p.l ELSE Macros_render(p.m)

\* p1.render() + ... + pn.render()
ParamTexts(ps) == collect([i \in 1..Len(ps) |-> ParamText(ps[i])])

\* what follows "\" + name in a rendered command
AfterName(text, name) == SubSeq(text, Len(name) + 2, Len(text))

\* a rendered parameter section without its enclosing braces
Unbraced(rest) == IF rest = "" THEN "" ELSE SubSeq(rest, 2, Len(rest) - 1)

\* C2: a Macros without param() calls renders as "\" + name; a Macros with
\* n >= 1 param() calls renders as "\" + name + "{" + parameters + "}", for
\* every parameter value, the empty literal included.
C2_BracesIffParams ==
    op = "Macros_render" =>
        out = Some(IF Len(cmdLog) = 0
                   THEN "\\" \o cmd.m
                   ELSE "\\" \o cmd.m \o "{" \o ParamTexts(cmdLog) \o "}")

\* C7: the parameter section of a rendered Macros is p1.render() + ... +
\* pn.render() in the order of the param() calls with nothing in between;
\* a literal renders as its text and a nested command as its own render;
\* parameters "a" and "b" give "ab".
C7_NoDelimiterInOrder ==
    /\ cmd.params = cmdLog
    /\ \A i \in 1..Len(cmdLog) :
          Parameter_render(cmdLog[i]) = ParamText(cmdLog[i])
    /\ op = "Macros_render" =>
          LET rest == AfterName(out.v, cmd.m)
          IN  /\ StartsWith(out.v, "\\" \o cmd.m)
              /\ rest # "" =>
                    /\ SubSeq(rest, 1, 1) = "{"
                    /\ SubSeq(rest, Len(rest), Len(rest)) = "}"
              /\ Unbraced(rest) = ParamTexts(cmdLog)
              /\ cmdLog = << [tag |-> "Literal", l |-> "a"],
                             [tag |-> "Literal", l |-> "b"] >>
                    => Unbraced(rest) = "ab"

\* a literal followed by a nested command with a parameter of its own
C7_Witness ==
    /\ op = "Macros_render"
    /\ Len(cmdLog) = 2
    /\ cmdLog[1] = [tag |-> "Literal", l |-> "a"]
    /\ cmdLog[2].tag = "Macros"
    /\ Len(cmdLog[2].m.params) = 1
    /\ out = Some("\\LaTeX{a\\begin{a}}")

====
